---- MODULE Spec2Model ----
(***************************************************************************)
(* Model of the probability-trainer backend (src/server.js, the server     *)
(* with the QUESTIONS cache, lines 67-308): the JSON extractor, the        *)
(* question normalizer, the question cache and the two POST handlers.      *)
(*                                                                         *)
(* JavaScript strings are sequences of character codes, so that trim,      *)
(* the regular expressions, toUpperCase and String.fromCharCode are        *)
(* computed as the code computes them.  A JavaScript value is a record     *)
(* [t, n, s, a]: its typeof tag, and its number, string or array payload.  *)
(***************************************************************************)
EXTENDS Integers, Sequences, FiniteSets, TLC

\* ------------------------------------------------------------------ bounds

\* generation requests accepted in one run
MaxGens == 2

\* ------------------------------------------------------- characters, strings

\* character codes of the characters the inputs are written with
Ch ==
  [ d0 |-> 48, d1 |-> 49, d2 |-> 50, d3 |-> 51, d5 |-> 53, d7 |-> 55, d9 |-> 57,
    A |-> 65, B |-> 66, C |-> 67, D |-> 68, E |-> 69, Z |-> 90,
    a |-> 97, b |-> 98, c |-> 99, d |-> 100, e |-> 101, f |-> 102, i |-> 105,
    l |-> 108, m |-> 109, n |-> 110, q |-> 113, r |-> 114, s |-> 115,
    u |-> 117, x |-> 120, y |-> 121, z |-> 122 ]

\* the string literals of the code
sEmpty == << >>
sMisc == << 109, 105, 115, 99 >>
sNum == << 110, 117, 109 >>
sUndefined == << 117, 110, 100, 101, 102, 105, 110, 101, 100 >>
sNull == << 110, 117, 108, 108 >>

\* /\d/
IsDigit(c) == c >= 48 /\ c <= 57

\* /^\d+$/.test(t)
AllDigits(t) == Len(t) > 0 /\ \A k \in 1..Len(t) : IsDigit(t[k])

\* /^[A-Da-d]$/.test(t)
IsLetterAD(t) ==
  Len(t) = 1 /\ ((t[1] >= 65 /\ t[1] <= 68) \/ (t[1] >= 97 /\ t[1] <= 100))

\* String.prototype.toUpperCase on one character code
UpperChar(c) == IF c >= 97 /\ c <= 122 THEN c - 32 ELSE c

\* String.prototype.toUpperCase
toUpperCase(t) == [k \in 1..Len(t) |-> UpperChar(t[k])]

RECURSIVE TrimLeft(_)
TrimLeft(t) ==
  IF Len(t) > 0 /\ t[1] = 32 THEN TrimLeft(Tail(t)) ELSE t

RECURSIVE TrimRight(_)
TrimRight(t) ==
  IF Len(t) > 0 /\ t[Len(t)] = 32 THEN TrimRight(SubSeq(t, 1, Len(t) - 1)) ELSE t

\* String.prototype.trim (the white space of the inputs is the space, code 32)
trim(t) == TrimRight(TrimLeft(t))

\* the value of a string of decimal digits
RECURSIVE DigitsValue(_)
DigitsValue(t) ==
  IF Len(t) = 0 THEN 0
  ELSE 10 * DigitsValue(SubSeq(t, 1, Len(t) - 1)) + (t[Len(t)] - 48)

\* the decimal digits of a natural number
RECURSIVE NatDigits(_)
NatDigits(n) ==
  IF n < 10 THEN << 48 + n >> ELSE Append(NatDigits(n \div 10), 48 + (n % 10))

\* String(n) for an integer n
IntToString(n) == IF n < 0 THEN << 45 >> \o NatDigits(0 - n) ELSE NatDigits(n)

\* String.fromCharCode(n): the code unit is n modulo 2^16
fromCharCode(n) == << n % 65536 >>

Max(x, y) == IF x >= y THEN x ELSE y
Min(x, y) == IF x <= y THEN x ELSE y

\* ---------------------------------------------------------- JavaScript values

Undef == [t |-> "undefined", n |-> 0, s |-> << >>, a |-> << >>]
Null == [t |-> "null", n |-> 0, s |-> << >>, a |-> << >>]
Num(v) == [t |-> "number", n |-> v, s |-> << >>, a |-> << >>]
Str(v) == [t |-> "string", n |-> 0, s |-> v, a |-> << >>]
\* an array of scalar values
Arr(items) == [t |-> "array", n |-> 0, s |-> << >>, a |-> items]

\* x ?? y
Coalesce(x, y) == IF x.t \in {"undefined", "null"} THEN y ELSE x

\* String(v) for a scalar value
ScalarToString(v) ==
  CASE v.t = "string" -> v.s
    [] v.t = "number" -> IntToString(v.n)
    [] v.t = "null" -> sNull
    [] OTHER -> sUndefined

\* Array.prototype.join(","): null and undefined elements give the empty string
RECURSIVE JoinComma(_)
JoinComma(items) ==
  IF Len(items) = 0 THEN << >>
  ELSE LET h == IF items[1].t \in {"undefined", "null"} THEN << >>
                ELSE ScalarToString(items[1])
       IN IF Len(items) = 1 THEN h
          ELSE h \o << 44 >> \o JoinComma(Tail(items))

\* String(v)
String(v) == IF v.t = "array" THEN JoinComma(v.a) ELSE ScalarToString(v)

\* Number(v) as [nan, n]: a string counts after trimming, the empty string is 0,
\* an optional minus sign and decimal digits are the number, anything else is NaN
StringToNumber(t) ==
  LET u == trim(t) IN
  IF Len(u) = 0 THEN [nan |-> FALSE, n |-> 0]
  ELSE IF AllDigits(u) THEN [nan |-> FALSE, n |-> DigitsValue(u)]
  ELSE IF u[1] = 45 /\ AllDigits(Tail(u))
       THEN [nan |-> FALSE, n |-> 0 - DigitsValue(Tail(u))]
  ELSE [nan |-> TRUE, n |-> 0]

Number(v) ==
  CASE v.t = "number" -> [nan |-> FALSE, n |-> v.n]
    [] v.t = "null" -> [nan |-> FALSE, n |-> 0]
    [] v.t = "undefined" -> [nan |-> TRUE, n |-> 0]
    [] v.t = "string" -> StringToNumber(v.s)
    [] OTHER -> StringToNumber(JoinComma(v.a))

\* x === y for two results of Number(): NaN equals nothing
NumberStrictEq(x, y) == ~x.nan /\ ~y.nan /\ x.n = y.n

\* options.findIndex(o => o.trim() === t), zero-based, -1 when none
RECURSIVE FindFrom(_, _, _)
FindFrom(options, t, k) ==
  IF k > Len(options) THEN -1
  ELSE IF trim(options[k]) = t THEN k - 1
  ELSE FindFrom(options, t, k + 1)

findIndex(options, t) == FindFrom(options, t, 1)

\* ------------------------------------------------------- question normalizer

\* a candidate question of the model output: the fields normalizeQuestion reads
\* (an absent field is Undef); nul marks the JSON value null in place of an object
EmptyRaw ==
  [ nul |-> FALSE, id |-> Undef, section_id |-> Undef, title |-> Undef,
    type |-> Undef, content_md |-> Undef, content |-> Undef, text |-> Undef,
    options |-> Undef, answers |-> Undef, answer |-> Undef,
    explanation_md |-> Undef, explanation |-> Undef, rationale |-> Undef ]

NullRaw == [EmptyRaw EXCEPT !.nul = TRUE]

\* Array.isArray(v) ? v.map(String) : []
MapString(v) ==
  IF v.t = "array" THEN [k \in 1..Len(v.a) |-> ScalarToString(v.a[k])] ELSE << >>

\* Math.max(0, Math.min(options.length - 1, n))
ClampIndex(options, n) == Max(0, Min(Len(options) - 1, n))

\* the answer of normalizeQuestion: a number is a clamped index, a string of
\* digits a clamped index, a letter A-D itself in upper case, another string the
\* letter of the option with that text, and anything else is left as it is
NormalizeAnswer(options, answer) ==
  IF answer.t = "number"
  THEN Str(fromCharCode(65 + ClampIndex(options, answer.n)))
  ELSE IF answer.t = "string"
  THEN LET t == trim(answer.s) IN
       IF AllDigits(t)
       THEN Str(fromCharCode(65 + ClampIndex(options, DigitsValue(t))))
       ELSE IF IsLetterAD(t) THEN Str(toUpperCase(t))
       ELSE LET idx == findIndex(options, t) IN
            IF idx >= 0 THEN Str(fromCharCode(65 + idx)) ELSE answer
  ELSE answer

\* q.id, q.type, ... on null throws a TypeError
NormalizeThrows(q) == q.nul

\* normalizeQuestion(q, sectionIdFallback) where rnd is what cryptoRandomId()
\* returns when it is called; an undefined fallback takes the default 'misc'
normalizeQuestion(q, sectionIdFallback, rnd) ==
  LET type == IF q.type = Str(sNum) THEN "num" ELSE "mcq"
      opts0 == MapString(q.options)
      options == IF type = "mcq" /\ Len(opts0) = 0 /\ q.answers.t = "array"
                 THEN MapString(q.answers) ELSE opts0
      fallback == IF sectionIdFallback.t = "undefined" THEN Str(sMisc)
                  ELSE sectionIdFallback
  IN [ id |-> String(Coalesce(q.id, Str(rnd))),
       section_id |-> String(Coalesce(q.section_id, fallback)),
       title |-> Coalesce(q.title, Str(sEmpty)),
       type |-> type,
       content_md |->
         Coalesce(q.content_md,
           Coalesce(q.content, Coalesce(q.text, Coalesce(q.title, Str(sEmpty))))),
       options |-> options,
       answer |-> NormalizeAnswer(options, q.answer),
       explanation_md |->
         Coalesce(q.explanation_md,
           Coalesce(q.explanation, Coalesce(q.rationale, Str(sEmpty)))) ]

\* ------------------------------------------------------------ answer checking

\* the user answer of check-answer as it is compared: for an mcq question a number
\* n is the letter of code 65 + n, a string of digits likewise, a letter A-D
\* itself in upper case, and another string the letter of the option with that text
NormalizeUserAnswer(q, userAns) ==
  IF q.type # "mcq" THEN userAns
  ELSE IF userAns.t = "number" THEN Str(fromCharCode(65 + userAns.n))
  ELSE IF userAns.t = "string"
  THEN LET t == trim(userAns.s) IN
       IF AllDigits(t) THEN Str(fromCharCode(65 + DigitsValue(t)))
       ELSE IF IsLetterAD(t) THEN Str(toUpperCase(t))
       ELSE LET idx == findIndex(q.options, t) IN
            IF idx >= 0 THEN Str(fromCharCode(65 + idx)) ELSE userAns
  ELSE userAns

\* const correct = ..., where u is the user answer after its normalization
Compare(q, u) ==
  IF q.type = "mcq"
  THEN toUpperCase(String(u)) = toUpperCase(String(q.answer))
  ELSE NumberStrictEq(Number(u), Number(q.answer))

\* the verdict of check-answer on the user answer userAns for the question q
IsCorrect(q, userAns) == Compare(q, NormalizeUserAnswer(q, userAns))

\* ------------------------------------------------------------------ JSON text

\* A text is a sequence of character codes.  Two kinds of code above the
\* character range stand for brace-free, quote-balanced stretches of JSON text:
\* Tok.questions for the key and colon  "questions":  and Tok.cand + k for the
\* members  "id":...,"options":[...],"answer":...  of candidate k of Candidates.
\* Texts hold no white space, backslash, '.', 'e' or 'E', and no such code
\* between two quotes.
Tok ==
  [ lbrace |-> 123, rbrace |-> 125, lbrack |-> 91, rbrack |-> 93, quote |-> 34,
    colon |-> 58, comma |-> 44, minus |-> 45, tick |-> 96,
    cand |-> 1000, questions |-> 2000 ]

IsCandTok(c) == c > Tok.cand /\ c < Tok.questions

\* A parsed JSON value is a tagged tuple: <<"obj", members>> with members a
\* sequence of <<key, value>>, <<"arr", values>>, <<"str", text>>, <<"num", n>>,
\* <<"lit", text>> for null, true and false, and <<"cand", k>> for the members
\* that Tok.cand + k stands for.
ParseFail == [ok |-> FALSE, v |-> << "lit", << >> >>, i |-> 0]
ParseOk(v, i) == [ok |-> TRUE, v |-> v, i |-> i]

sTrue == << 116, 114, 117, 101 >>
sFalse == << 102, 97, 108, 115, 101 >>

\* the index of the first quote at or after i, 0 when there is none or a code
\* above the character range comes first
RECURSIVE ClosingQuote(_, _)
ClosingQuote(s, i) ==
  IF i > Len(s) \/ s[i] >= Tok.cand THEN 0
  ELSE IF s[i] = Tok.quote THEN i
  ELSE ClosingQuote(s, i + 1)

\* a string literal starting at the quote s[i]
ParseString(s, i) ==
  LET j == ClosingQuote(s, i + 1) IN
  IF j = 0 THEN ParseFail ELSE ParseOk(<< "str", SubSeq(s, i + 1, j - 1) >>, j + 1)

\* the index after the run of digits starting at i
RECURSIVE DigitsEnd(_, _)
DigitsEnd(s, i) == IF i <= Len(s) /\ IsDigit(s[i]) THEN DigitsEnd(s, i + 1) ELSE i

\* a number starting at s[i]: an optional minus sign, then 0 or a run of digits
\* that does not start with 0
ParseNumber(s, i) ==
  LET neg == s[i] = Tok.minus
      b == IF neg THEN i + 1 ELSE i
      e == DigitsEnd(s, b)
  IN IF e = b \/ (e > b + 1 /\ s[b] = 48) THEN ParseFail
     ELSE ParseOk(<< "num", IF neg THEN 0 - DigitsValue(SubSeq(s, b, e - 1))
                            ELSE DigitsValue(SubSeq(s, b, e - 1)) >>, e)

\* the literal lit at s[i]
ParseLiteral(s, i, lit) ==
  IF i + Len(lit) - 1 <= Len(s) /\ SubSeq(s, i, i + Len(lit) - 1) = lit
  THEN ParseOk(<< "lit", lit >>, i + Len(lit)) ELSE ParseFail

\* a member added to an object: a repeated key keeps its place and takes the
\* later value
AddMember(members, key, val) ==
  IF \E k \in 1..Len(members) : members[k][1] = key
  THEN [k \in 1..Len(members) |->
          IF members[k][1] = key THEN << key, val >> ELSE members[k]]
  ELSE Append(members, << key, val >>)

RECURSIVE ParseValue(_, _)
RECURSIVE ParseMembers(_, _, _)
RECURSIVE ParseElements(_, _, _)

\* no member starts here
NoMember == [ok |-> FALSE, key |-> << >>, v |-> ParseFail.v, i |-> 0]

\* the member with the key key whose value was parsed as r
KeyedValue(key, r) == [ok |-> r.ok, key |-> key, v |-> r.v, i |-> r.i]

\* the member whose key was parsed as the string k: a colon and a value follow
MemberAfterKey(s, k) ==
  IF k.ok /\ k.i <= Len(s) /\ s[k.i] = Tok.colon
  THEN KeyedValue(k.v[2], ParseValue(s, k.i + 1))
  ELSE NoMember

\* the member of an object that starts at s[i]
ParseMember(s, i) ==
  IF IsCandTok(s[i])
  THEN [ok |-> TRUE, key |-> << s[i] >>, v |-> << "cand", s[i] - Tok.cand >>,
        i |-> i + 1]
  ELSE IF s[i] = Tok.questions THEN KeyedValue(<< s[i] >>, ParseValue(s, i + 1))
  ELSE IF s[i] = Tok.quote THEN MemberAfterKey(s, ParseString(s, i))
  ELSE NoMember

\* what follows the member m of an object: a comma and more members, or '}'
MembersAfter(s, acc, m) ==
  IF ~m.ok \/ m.i > Len(s) THEN ParseFail
  ELSE IF s[m.i] = Tok.comma
  THEN ParseMembers(s, m.i + 1, AddMember(acc, m.key, m.v))
  ELSE IF s[m.i] = Tok.rbrace
  THEN ParseOk(<< "obj", AddMember(acc, m.key, m.v) >>, m.i + 1)
  ELSE ParseFail

\* the members of an object from s[i] on, after those of acc, up to its '}'
ParseMembers(s, i, acc) ==
  IF i > Len(s) THEN ParseFail ELSE MembersAfter(s, acc, ParseMember(s, i))

\* what follows the element r of an array: a comma and more elements, or ']'
ElementsAfter(s, acc, r) ==
  IF ~r.ok \/ r.i > Len(s) THEN ParseFail
  ELSE IF s[r.i] = Tok.comma THEN ParseElements(s, r.i + 1, Append(acc, r.v))
  ELSE IF s[r.i] = Tok.rbrack THEN ParseOk(<< "arr", Append(acc, r.v) >>, r.i + 1)
  ELSE ParseFail

\* the elements of an array from s[i] on, after those of acc, up to its ']'
ParseElements(s, i, acc) == ElementsAfter(s, acc, ParseValue(s, i))

\* the JSON value that starts at s[i]
ParseValue(s, i) ==
  IF i > Len(s) THEN ParseFail
  ELSE IF s[i] = Tok.lbrace
  THEN IF i + 1 <= Len(s) /\ s[i + 1] = Tok.rbrace
       THEN ParseOk(<< "obj", << >> >>, i + 2)
       ELSE ParseMembers(s, i + 1, << >>)
  ELSE IF s[i] = Tok.lbrack
  THEN IF i + 1 <= Len(s) /\ s[i + 1] = Tok.rbrack
       THEN ParseOk(<< "arr", << >> >>, i + 2)
       ELSE ParseElements(s, i + 1, << >>)
  ELSE IF s[i] = Tok.quote THEN ParseString(s, i)
  ELSE IF s[i] = Tok.minus \/ IsDigit(s[i]) THEN ParseNumber(s, i)
  ELSE IF s[i] = sNull[1] THEN ParseLiteral(s, i, sNull)
  ELSE IF s[i] = sTrue[1] THEN ParseLiteral(s, i, sTrue)
  ELSE IF s[i] = sFalse[1] THEN ParseLiteral(s, i, sFalse)
  ELSE ParseFail

\* r is the value parsed at the start of s: trailing text makes JSON.parse throw
WholeText(s, r) ==
  IF r.ok /\ r.i = Len(s) + 1 THEN [ok |-> TRUE, v |-> r.v]
  ELSE [ok |-> FALSE, v |-> ParseFail.v]

\* JSON.parse(s) as [ok, v]: ok is FALSE where JSON.parse throws
JSONparse(s) == WholeText(s, ParseValue(s, 1))

\* ------------------------------------------------------------- JSON extractor

RECURSIVE ExtractFrom(_, _, _, _)

\* try { return JSON.parse(candidate) } catch {}: r is what JSON.parse gave for
\* the span that ends at i, and the loop goes on where it threw
SpanOrOn(str, i, depth, start, r) ==
  IF r.ok THEN r ELSE ExtractFrom(str, i + 1, depth, start)

\* the loop of extractJson from index i with the depth and start it has there
ExtractFrom(str, i, depth, start) ==
  IF i > Len(str) THEN [ok |-> FALSE, v |-> ParseFail.v]
  ELSE IF str[i] = Tok.lbrace
  THEN ExtractFrom(str, i + 1, depth + 1, IF depth = 0 THEN i ELSE start)
  ELSE IF str[i] = Tok.rbrace
  THEN IF depth - 1 = 0 /\ start # -1
       THEN SpanOrOn(str, i, depth - 1, start, JSONparse(SubSeq(str, start, i)))
       ELSE ExtractFrom(str, i + 1, depth - 1, start)
  ELSE ExtractFrom(str, i + 1, depth, start)

\* extractJson(str) as [ok, v]: ok is FALSE where it throws 'JSON not found'
extractJson(str) == ExtractFrom(str, 1, 0, -1)

\* --------------------------------------------------------------------- inputs

sQ1 == << Ch.q, Ch.d1 >>
sQ2 == << Ch.q, Ch.d2 >>
sR1 == << Ch.r, Ch.d1 >>
sR2 == << Ch.r, Ch.d2 >>
sS1 == << Ch.s, Ch.d1 >>
sS2 == << Ch.s, Ch.d2 >>

OptsXY == Arr(<< Str(<< Ch.x >>), Str(<< Ch.y >>) >>)
OptsDigits == Arr(<< Str(<< Ch.d2 >>), Str(<< Ch.d3 >>), Str(<< Ch.d5 >>) >>)

\* the candidate questions the provider's output is written with
Candidates ==
  << [EmptyRaw EXCEPT !.id = Str(sQ1), !.section_id = Str(sS1), !.options = OptsXY,
                      !.answer = Str(<< Ch.B >>), !.explanation_md = Str(<< Ch.e >>)],
     [EmptyRaw EXCEPT !.id = Str(sQ2), !.section_id = Str(sS1),
                      !.options = OptsDigits, !.answer = Num(1)],
     [EmptyRaw EXCEPT !.id = Str(sQ1), !.section_id = Str(sS2), !.options = OptsXY,
                      !.answer = Str(<< Ch.z >>)],
     [EmptyRaw EXCEPT !.id = Str(sQ2), !.section_id = Str(sS2), !.type = Str(sNum),
                      !.answers = OptsXY, !.answer = Num(7)],
     EmptyRaw >>

\* what cryptoRandomId() can return
RandIds == { sR1, sR2 }

\* the section lists of a generation request: the id of each section
SectionLists == { << Str(sS1), Undef >> }

\* the text of one element of the questions array: 0 is null, k is the object
\* with the members of candidate k
ElemText(e) ==
  IF e = 0 THEN sNull ELSE << Tok.lbrace, Tok.cand + e, Tok.rbrace >>

RECURSIVE ElemsText(_)
ElemsText(list) ==
  IF Len(list) = 0 THEN << >>
  ELSE IF Len(list) = 1 THEN ElemText(list[1])
  ELSE ElemText(list[1]) \o << Tok.comma >> \o ElemsText(Tail(list))

\* {"questions":[...]}
WrapText(list) ==
  << Tok.lbrace, Tok.questions, Tok.lbrack >> \o ElemsText(list)
    \o << Tok.rbrack, Tok.rbrace >>

\* the questions arrays of the provider's outputs: the empty one, each
\* candidate alone, and the pairs of two candidates (with two ids, with the
\* same id) and of a candidate and null
ElemLists ==
  { << >> } \cup { << e >> : e \in 1..Len(Candidates) }
  \cup { << 1, 2 >>, << 1, 0 >>, << 1, 3 >> }

\* the texts of message.content the provider answers with: the wrapped lists,
\* two of them inside prose, a code fence and stray braces, and texts with no
\* questions list
Contents ==
  { WrapText(l) : l \in ElemLists }
  \cup UNION { { << Ch.a >> \o WrapText(l) \o << Ch.a >>,
                 << Tok.tick, Tok.tick, Tok.tick >> \o WrapText(l)
                   \o << Tok.tick, Tok.tick, Tok.tick >>,
                 << Tok.rbrace, Ch.a >> \o WrapText(l),
                 << Tok.lbrace, Ch.a >> \o WrapText(l),
                 WrapText(l) \o << Ch.a, Tok.lbrace >> } : l \in { << 1 >> } }
  \cup { << >>, << Ch.a >>, << Tok.lbrace, Tok.rbrace >>, << Ch.d1 >>,
         << Tok.lbrace, Tok.questions, Ch.d1, Tok.rbrace >>,
         << Tok.lbrace, Ch.a, Tok.rbrace >> }

\* what dsResp.text() settles with: a rejection, a body that is not JSON, or
\* the JSON envelope with choices[0].message.content (absent content is '')
ProviderBodies ==
  { [rejected |-> TRUE, valid |-> FALSE, content |-> << >>],
    [rejected |-> FALSE, valid |-> FALSE, content |-> << >>] }
  \cup { [rejected |-> FALSE, valid |-> TRUE, content |-> c] : c \in Contents }

\* ---------------------------------------------------------------------- state

VARIABLES
  QUESTIONS,   \* the cache: question id -> normalized question
  apiKey,      \* whether DEEPSEEK_KEY or DEEPSEEK_API_KEY is set
  gen,         \* the gen-questions requests: where each is in its handler
  last,        \* the request and response of the handler that finished last
  hist,        \* history: the question lists of the successful generation responses
  aged,        \* history: the ids stored, and not stored again or looked up, for
               \* longer than the time-to-live the specification gives a batch
  text,        \* the argument of a call of extractJson on its own
  extracted    \* what that call returned or threw

server == << QUESTIONS, apiKey, gen, last, hist, aged >>
call == << text, extracted >>
vars == << server, call >>

\* a lookup that counts an entry as absent once it has aged
hasFresh(store, id) == id \in DOMAIN store /\ id \notin aged

\* Map.prototype.get: has(store, id) is whether get(id) is defined
has(store, id) == id \in DOMAIN store

\* a set that replaces the whole cache by the one entry
setAlone(store, id, q) == [k \in { id } |-> q]

\* Map.prototype.set
set(store, id, q) == [k \in DOMAIN store \cup { id } |-> IF k = id THEN q ELSE store[k]]

\* a store that keeps the entry an id already has
RECURSIVE StoreAbsent(_, _)
StoreAbsent(store, normalized) ==
  IF Len(normalized) = 0 THEN store
  ELSE StoreAbsent(IF has(store, normalized[1].id) THEN store
                   ELSE set(store, normalized[1].id, normalized[1]),
                   Tail(normalized))

\* a store in which the first record of a response with an id wins
RECURSIVE StoreFirst(_, _)
StoreFirst(store, normalized) ==
  IF Len(normalized) = 0 THEN store
  ELSE set(StoreFirst(store, Tail(normalized)), normalized[1].id, normalized[1])

\* normalized.forEach(q => QUESTIONS.set(q.id, q))
RECURSIVE StoreAll(_, _)
StoreAll(store, normalized) ==
  IF Len(normalized) = 0 THEN store
  ELSE StoreAll(set(store, normalized[1].id, normalized[1]), Tail(normalized))

\* a candidate question as normalizeQuestion reads it from a parsed array
\* element: null, an object (a later member overrides an earlier one), or a
\* value without these properties
RECURSIVE MergeMembers(_, _)
MergeMembers(members, acc) ==
  IF Len(members) = 0 THEN acc
  ELSE LET v == members[1][2]
           c == Candidates[v[2]]
       IN MergeMembers(Tail(members),
            IF v[1] = "cand"
            THEN [f \in DOMAIN acc |->
                    IF f = "nul" THEN FALSE
                    ELSE IF c[f].t # "undefined" THEN c[f] ELSE acc[f]]
            ELSE acc)

ToRaw(v) ==
  IF v[1] = "lit" /\ v[2] = sNull THEN NullRaw
  ELSE IF v[1] = "obj" THEN MergeMembers(v[2], EmptyRaw)
  ELSE EmptyRaw

\* Array.isArray(parsed?.questions) ? parsed.questions : []
QuestionsOf(parsed) ==
  IF parsed[1] = "obj"
     /\ \E k \in 1..Len(parsed[2]) :
          parsed[2][k][1] = << Tok.questions >> /\ parsed[2][k][2][1] = "arr"
  THEN LET k == CHOOSE k \in 1..Len(parsed[2]) : parsed[2][k][1] = << Tok.questions >>
           elems == parsed[2][k][2][2]
       IN [j \in 1..Len(elems) |-> ToRaw(elems[j])]
  ELSE << >>

\* sections[i % Math.max(1, sections.length)]?.id for the zero-based index i
SectionFallback(sections, i) ==
  IF Len(sections) = 0 THEN Undef ELSE sections[(i % Max(1, Len(sections))) + 1]

\* p is what JSON.parse(content) gave: where it threw, extractJson(content)
OrExtract(content, p) == IF p.ok THEN p ELSE extractJson(content)

\* try { parsed = JSON.parse(content) } catch { parsed = extractJson(content) }
ParseContent(content) == OrExtract(content, JSONparse(content))

\* JSON.stringify of a question: a property whose value is undefined is left
\* out, and only answer can be undefined
ResponseQuestion(q) ==
  IF q.answer.t = "undefined"
  THEN [f \in DOMAIN q \ { "answer" } |-> q[f]]
  ELSE q

\* a payload that withholds answer and explanation_md
PayloadWithheld(normalized) ==
  [k \in 1..Len(normalized) |->
     [f \in DOMAIN normalized[k] \ { "answer", "explanation_md" } |->
        normalized[k][f]]]

\* res.json({ questions: normalized })
ResponsePayload(normalized) ==
  [k \in 1..Len(normalized) |-> ResponseQuestion(normalized[k])]

NoLast ==
  [ op |-> "none", status |-> 0, error |-> "", questions |-> << >>,
    qid |-> << >>, batchId |-> 0, userAns |-> Undef, correct |-> FALSE,
    resolved |-> Undef, correctAnswer |-> Undef, explanation_md |-> Undef,
    aged |-> FALSE, read |-> FALSE, content |-> << >> ]

GenError(status, error) ==
  [NoLast EXCEPT !.op = "gen", !.status = status, !.error = error]

\* why the handler stops before it has a list of candidates
NoCandidates(status, error) ==
  [status |-> status, error |-> error, list |-> << >>, read |-> FALSE,
   content |-> << >>]

\* a handler that fails where the parsed output has no question
CandidatesOrInvalid(content, parsed) ==
  IF ~parsed.ok \/ Len(QuestionsOf(parsed.v)) = 0
  THEN [NoCandidates(500, "Error: JSON not found in content")
          EXCEPT !.read = TRUE, !.content = content]
  ELSE [status |-> 200, error |-> "", list |-> QuestionsOf(parsed.v),
        read |-> TRUE, content |-> content]

\* const list = Array.isArray(parsed?.questions) ? parsed.questions : [], where
\* parsed is what the try/catch around JSON.parse(content) gave
CandidatesOf(content, parsed) ==
  IF ~parsed.ok
  THEN [NoCandidates(500, "Error: JSON not found in content")
          EXCEPT !.read = TRUE, !.content = content]
  ELSE [status |-> 200, error |-> "", list |-> QuestionsOf(parsed.v),
        read |-> TRUE, content |-> content]

\* the gen-questions handler from the settled dsResp.text() to the list of
\* candidates: [status, error, list, read, content], with status 200 when it
\* gets that far, and otherwise the status and the error of the response it
\* sends; read is whether it got to const content, and content what that was
GenCandidates(ok, body) ==
  IF body.rejected THEN NoCandidates(500, "FetchError")
  ELSE IF ~ok THEN NoCandidates(502, "DeepSeek error")
  ELSE IF ~body.valid THEN NoCandidates(500, "SyntaxError")
  ELSE CandidatesOf(body.content, ParseContent(body.content))

\* the draws of cryptoRandomId() while list is normalized: one for each
\* candidate whose id is undefined or null (sR1 fills the other places, unused)
RandomDraws(list) ==
  { rnds \in [1..Len(list) -> RandIds] :
      \A k \in 1..Len(list) :
        (list[k].nul \/ list[k].id.t \notin { "undefined", "null" }) => rnds[k] = sR1 }

\* list.map((q, i) => normalizeQuestion(q, sections[...]?.id))
NormalizeAll(list, sections, rnds) ==
  [k \in 1..Len(list) |->
     normalizeQuestion(list[k], SectionFallback(sections, k - 1), rnds[k])]

\* an outcome of the handler: [res, store, stored, normalized], the response,
\* the cache after it, whether the handler got past QUESTIONS.set, and the list
\* it stored
Failed(store, status, error) ==
  [res |-> GenError(status, error), store |-> store, stored |-> FALSE,
   normalized |-> << >>]

\* normalized.forEach(q => QUESTIONS.set(q.id, q)); res.json({ questions: normalized })
StoreAndRespond(store, normalized) ==
  [res |-> [NoLast EXCEPT !.op = "gen", !.status = 200,
                          !.questions = ResponsePayload(normalized)],
   store |-> StoreAll(store, normalized),
   stored |-> TRUE,
   normalized |-> normalized]

\* a handler that stores each candidate as soon as it is normalized: the ones
\* before the candidate that makes normalizeQuestion throw are in the cache
CacheEagerly(store, list, sections, rnds) ==
  IF \E k \in 1..Len(list) : NormalizeThrows(list[k])
  THEN LET n == CHOOSE k \in 1..Len(list) :
                  /\ NormalizeThrows(list[k])
                  /\ \A j \in 1..(k - 1) : ~NormalizeThrows(list[j])
       IN Failed(StoreAll(store, NormalizeAll(SubSeq(list, 1, n - 1), sections, rnds)),
                 500, "TypeError")
  ELSE StoreAndRespond(store, NormalizeAll(list, sections, rnds))

\* the handler from the list of candidates on: a candidate that makes
\* normalizeQuestion throw ends it inside list.map, before any QUESTIONS.set
CacheAfter(store, list, sections, rnds) ==
  IF \E k \in 1..Len(list) : NormalizeThrows(list[k])
  THEN Failed(store, 500, "TypeError")
  ELSE StoreAndRespond(store, NormalizeAll(list, sections, rnds))

\* the handler from the outcome c of GenCandidates on
GenQuestions(store, sections, c, rnds) ==
  IF c.status # 200 THEN Failed(store, c.status, c.error)
  ELSE CacheAfter(store, c.list, sections, rnds)

\* the body of a check-answer request: the fields the handler reads, and the
\* batchId a caller may send, which it does not read
EmptyBody ==
  [ qid |-> Undef, question_id |-> Undef, id |-> Undef, answer |-> Undef,
    userAnswer |-> Undef, value |-> Undef, batchId |-> 0 ]

\* the user answers of the check-answer requests
UserAnswers ==
  { Undef, Num(1), Num(5), Num(7), Str(<< Ch.b >>), Str(<< Ch.d3 >>), Str(<< Ch.y >>),
    Str(<< Ch.z >>), Arr(<< Str(<< Ch.b >>) >>) }

\* the bodies of the check-answer requests: each user answer for q2, the answer
\* B for q1 with each batch named, no answer for r1, and the other two shapes
\* of body the handler accepts
CheckBodies ==
  { [EmptyBody EXCEPT !.qid = Str(sQ2), !.answer = u, !.batchId = 1] :
      u \in UserAnswers }
  \cup { [EmptyBody EXCEPT !.qid = Str(sQ1), !.answer = Str(<< Ch.B >>),
                           !.batchId = b] : b \in 1..MaxGens }
  \cup { EmptyBody,
         [EmptyBody EXCEPT !.qid = Str(sR1)],
         [EmptyBody EXCEPT !.qid = Str(sQ1), !.answer = Str(<< Ch.z >>)],
         [EmptyBody EXCEPT !.question_id = Str(sQ1), !.userAnswer = Str(<< Ch.y >>)],
         [EmptyBody EXCEPT !.id = Str(sQ2), !.value = Str(<< Ch.B >>), !.answer = Null] }

\* String(req.body?.qid ?? req.body?.question?.id ?? req.body?.id ?? '')
BodyQid(body) ==
  String(Coalesce(body.qid, Coalesce(body.question_id, Coalesce(body.id, Str(sEmpty)))))

\* req.body?.answer ?? req.body?.userAnswer ?? req.body?.value
BodyAnswer(body) == Coalesce(body.answer, Coalesce(body.userAnswer, body.value))

\* v || ''
OrEmpty(v) ==
  IF v.t \in { "undefined", "null" } \/ v = Str(sEmpty) \/ v = Num(0)
  THEN Str(sEmpty) ELSE v

\* the request as the handler reads it (aged is whether the time-to-live of
\* the specification has elapsed for the question it names)
CheckRequest(qid, userAns, batchId) ==
  [NoLast EXCEPT !.op = "check", !.qid = qid, !.batchId = batchId,
                 !.userAns = userAns, !.aged = qid \in aged]

\* res.json({ ok: true, correct, correctAnswer: q.answer, ... })
Checked(req, q) ==
  [req EXCEPT !.status = 200,
              !.resolved = NormalizeUserAnswer(q, req.userAns),
              !.correct = IsCorrect(q, req.userAns),
              !.correctAnswer = q.answer,
              !.explanation_md = OrEmpty(q.explanation_md)]

\* a lookup whose miss tells an empty cache from an unknown id
LookupTelling(store, req) ==
  IF ~has(store, req.qid)
  THEN [req EXCEPT !.status = 404,
                   !.error = IF DOMAIN store = { } THEN "no_questions"
                             ELSE "question_not_found"]
  ELSE Checked(req, store[req.qid])

\* const q = QUESTIONS.get(qid); if (!q) return res.status(404)...
Lookup(store, req) ==
  IF ~has(store, req.qid)
  THEN [req EXCEPT !.status = 404, !.error = "question_not_found"]
  ELSE Checked(req, store[req.qid])

\* the check-answer handler: its response to body with the cache store (the
\* payload's question, a copy of stored fields, is left out)
CheckAnswerResponse(store, body) ==
  Lookup(store, CheckRequest(BodyQid(body), BodyAnswer(body), body.batchId))

\* -------------------------------------------------------------------- actions

IdleGen == [pc |-> "idle", sections |-> << >>, ok |-> FALSE]

NotCalled == [called |-> FALSE, ok |-> FALSE, v |-> ParseFail.v]

Init ==
  /\ QUESTIONS = << >>
  /\ apiKey \in BOOLEAN
  /\ gen = [r \in 1..MaxGens |-> IdleGen]
  /\ last = NoLast
  /\ hist = << >>
  /\ aged = { }
  /\ text = << >>
  /\ extracted = NotCalled

\* POST /gen-questions arrives: without an API key it is answered at once,
\* otherwise the handler runs up to await fetch(...)
GenArrive(r) ==
  /\ gen[r].pc = "idle"
  /\ \A p \in 1..(r - 1) : gen[p].pc # "idle"
  /\ IF ~apiKey
     THEN /\ gen' = [gen EXCEPT ![r].pc = "done"]
          /\ last' = GenError(500, "Missing DEEPSEEK_KEY")
     ELSE /\ \E sections \in SectionLists :
               gen' = [gen EXCEPT ![r] = [pc |-> "fetch", sections |-> sections,
                                          ok |-> FALSE]]
          /\ last' = last
  /\ UNCHANGED << QUESTIONS, apiKey, hist, aged, call >>

\* fetch(...) rejects: the catch block answers 500
FetchRejects(r) ==
  /\ gen[r].pc = "fetch"
  /\ gen' = [gen EXCEPT ![r].pc = "done"]
  /\ last' = GenError(500, "FetchError")
  /\ UNCHANGED << QUESTIONS, apiKey, hist, aged, call >>

\* fetch(...) resolves with a response whose status is a success or not: the
\* handler runs up to await dsResp.text()
FetchResolves(r) ==
  /\ gen[r].pc = "fetch"
  /\ \E ok \in BOOLEAN : gen' = [gen EXCEPT ![r].pc = "text", ![r].ok = ok]
  /\ UNCHANGED << QUESTIONS, apiKey, last, hist, aged, call >>

\* dsResp.text() settles: the handler runs to its response
\* the handler ends with the outcome out: the cache it leaves and its response
\* (with the content it read, taken from c, its outcome up to the list)
Respond(c, out) ==
  /\ QUESTIONS' = out.store
  /\ last' = [out.res EXCEPT !.read = c.read, !.content = c.content]
  /\ hist' = IF out.stored THEN Append(hist, out.normalized) ELSE hist
  /\ aged' = aged \ { out.normalized[k].id : k \in 1..Len(out.normalized) }

\* request r goes on from the outcome c of GenCandidates, with the draws of
\* cryptoRandomId() that normalizing its list takes
FromCandidates(r, c) ==
  \E rnds \in RandomDraws(c.list) :
    Respond(c, GenQuestions(QUESTIONS, gen[r].sections, c, rnds))

TextSettles(r) ==
  /\ gen[r].pc = "text"
  /\ \E body \in ProviderBodies : FromCandidates(r, GenCandidates(gen[r].ok, body))
  /\ gen' = [gen EXCEPT ![r].pc = "done"]
  /\ UNCHANGED << apiKey, call >>

\* POST /check-answer: the handler has no await and runs in one step
CheckAnswer ==
  /\ \E body \in CheckBodies :
       /\ last' = CheckAnswerResponse(QUESTIONS, body)
       /\ aged' = aged \ { BodyQid(body) }
  /\ UNCHANGED << QUESTIONS, apiKey, gen, hist, call >>

\* time passes: more than a time-to-live since the last request
TtlElapses ==
  /\ aged # DOMAIN QUESTIONS
  /\ aged' = DOMAIN QUESTIONS
  /\ UNCHANGED << QUESTIONS, apiKey, gen, last, hist, call >>

Next ==
  \/ \E r \in 1..MaxGens : GenArrive(r)
  \/ \E r \in 1..MaxGens : FetchRejects(r)
  \/ \E r \in 1..MaxGens : FetchResolves(r)
  \/ \E r \in 1..MaxGens : TextSettles(r)
  \/ CheckAnswer

Spec == Init /\ [][Next]_vars

NextClock ==
  \/ Next
  \/ TtlElapses

SpecClock == Init /\ [][NextClock]_vars

\* ------------------------------------------------- extractJson on its own

\* texts of at most this many characters
MaxTextLen == 6

\* the characters of the texts: braces, a quote, the key "questions": with its
\* colon, and a digit
TextChars == { Tok.lbrace, Tok.rbrace, Tok.quote, Tok.questions, Ch.d1 }

Texts == UNION { [1..n -> TextChars] : n \in 0..MaxTextLen }

InitExtract ==
  /\ QUESTIONS = << >>
  /\ apiKey = TRUE
  /\ gen = [r \in 1..MaxGens |-> IdleGen]
  /\ last = NoLast
  /\ hist = << >>
  /\ aged = { }
  /\ text \in Texts
  /\ extracted = NotCalled

\* extractJson(text) is called
CallExtractJson ==
  /\ ~extracted.called
  /\ extracted' = [called |-> TRUE, ok |-> extractJson(text).ok,
                   v |-> extractJson(text).v]
  /\ UNCHANGED << server, text >>

NextExtract == CallExtractJson

SpecExtract == InitExtract /\ [][NextExtract]_vars

\* -------------------------------------------------------------- the history

\* the ids of the questions that successful generation b returned
ReturnedBy(b) == { hist[b][k].id : k \in 1..Len(hist[b]) }

\* the ids that some successful generation returned
Returned == UNION { ReturnedBy(b) : b \in 1..Len(hist) }

\* the record that list holds for id: the last one with that id
RecordIn(list, id) ==
  list[CHOOSE k \in 1..Len(list) :
         list[k].id = id /\ \A j \in (k + 1)..Len(list) : list[j].id # id]

\* the most recent successful generation that returned id
LatestBatch(id) ==
  CHOOSE b \in 1..Len(hist) :
    id \in ReturnedBy(b) /\ \A c \in (b + 1)..Len(hist) : id \notin ReturnedBy(c)

\* answer is the letter key of one of options
IsKeyOf(options, answer) ==
  /\ answer.t = "string"
  /\ Len(answer.s) = 1
  /\ answer.s[1] \in 65..(64 + Len(options))

\* generation request r completes in this step
Completes(r) == gen[r].pc # "done" /\ gen'[r].pc = "done"

\* --------------------------------------------------------------------- claims

\* C1, as stated: answers are isolated per batch.  A check-answer that names
\* batch b gets QuestionNotFound when batch b did not return its question id,
\* and otherwise the record served is the one batch b stored.
C1_BatchIsolation ==
  (last.op = "check" /\ last.batchId \in 1..Len(hist)) =>
    IF last.qid \notin ReturnedBy(last.batchId)
    THEN last.status = 404
    ELSE /\ last.status = 200
         /\ last.correctAnswer = RecordIn(hist[last.batchId], last.qid).answer

\* C1, amended: the cache is keyed by the question id alone.  A check-answer
\* gets QuestionNotFound exactly when no successful generation so far returned
\* its question id, whatever batch it names; otherwise the record served is the
\* one stored by the most recent successful generation that returned that id.
C1_KeyedByQuestionId ==
  last.op = "check" =>
    IF last.qid \notin Returned
    THEN last.status = 404 /\ last.error = "question_not_found"
    ELSE /\ last.status = 200
         /\ last.correctAnswer = RecordIn(hist[LatestBatch(last.qid)], last.qid).answer
         /\ last.explanation_md =
              OrEmpty(RecordIn(hist[LatestBatch(last.qid)], last.qid).explanation_md)

\* a check-answer naming batch 2 was answered for an id only batch 1 returned
C1_Witness ==
  /\ last.op = "check"
  /\ last.batchId = 2
  /\ Len(hist) >= 2
  /\ last.qid \in ReturnedBy(1) \ ReturnedBy(2)
  /\ last.status = 200

\* C2, as stated: no question of a successful generation response carries the
\* answer or the explanation; only id, section_id, title, content, type and
\* options are exposed.
C2_AnswerWithheld ==
  (last.op = "gen" /\ last.status = 200) =>
    \A k \in 1..Len(last.questions) :
      DOMAIN last.questions[k]
        \subseteq { "id", "section_id", "title", "content_md", "type", "options" }

\* C2, amended: every question of a successful generation response is the whole
\* normalized record as it was stored, explanation_md included, and answer
\* included whenever it is defined.
C2_WholeRecordReturned ==
  (last.op = "gen" /\ last.status = 200) =>
    /\ Len(hist) > 0
    /\ Len(last.questions) = Len(hist[Len(hist)])
    /\ \A k \in 1..Len(last.questions) :
         LET q == hist[Len(hist)][k]
             p == last.questions[k]
         IN /\ DOMAIN p = IF q.answer.t = "undefined" THEN DOMAIN q \ { "answer" }
                          ELSE DOMAIN q
            /\ "explanation_md" \in DOMAIN p
            /\ \A f \in DOMAIN p : p[f] = q[f]
            /\ has(QUESTIONS, q.id)

\* a successful generation response carries an answer and an explanation
C2_Witness ==
  /\ last.op = "gen"
  /\ last.status = 200
  /\ \E k \in 1..Len(last.questions) :
       /\ "answer" \in DOMAIN last.questions[k]
       /\ last.questions[k].answer = Str(<< Ch.B >>)
       /\ last.questions[k].explanation_md = Str(<< Ch.e >>)

\* C3: every mcq question held in the store whose options are non-empty has for
\* answer the letter key of one of its own options, and so has every mcq
\* question that a generation response returned (a candidate whose answer
\* matches no option is dropped).
C3_AnswerIsOptionKey ==
  /\ \A id \in DOMAIN QUESTIONS :
       (QUESTIONS[id].type = "mcq" /\ Len(QUESTIONS[id].options) > 0) =>
         IsKeyOf(QUESTIONS[id].options, QUESTIONS[id].answer)
  /\ \A b \in 1..Len(hist) : \A k \in 1..Len(hist[b]) :
       (hist[b][k].type = "mcq" /\ Len(hist[b][k].options) > 0) =>
         IsKeyOf(hist[b][k].options, hist[b][k].answer)

\* C4: for a stored mcq question whose answer is the letter of option k,
\* check-answer reports correct exactly when the user answer is that letter in
\* either case, the number k, or the text of option k.
C4_ResolverCorrect ==
  (/\ last.op = "check"
   /\ last.status = 200
   /\ QUESTIONS[last.qid].type = "mcq"
   /\ IsKeyOf(QUESTIONS[last.qid].options, QUESTIONS[last.qid].answer)) =>
    LET q == QUESTIONS[last.qid]
        k == q.answer.s[1] - 65
    IN last.correct =
         (last.userAns \in { Str(<< 65 + k >>), Str(<< 97 + k >>), Num(k),
                             Str(q.options[k + 1]) })

\* C5: check-answer resolves an mcq user answer that is a number or a string to
\* what normalizeQuestion resolves the same value to as the raw answer of a
\* question with the same options, out-of-range indices included.
C5_SamePipeline ==
  (/\ last.op = "check"
   /\ last.status = 200
   /\ QUESTIONS[last.qid].type = "mcq"
   /\ last.userAns.t \in { "number", "string" }) =>
    last.resolved = NormalizeAnswer(QUESTIONS[last.qid].options, last.userAns)

\* C6: a user answer that cannot be resolved for a stored question (missing,
\* not a string or a number, a string that is no index, no letter and no option
\* text; for a num question a value that is no number) gets a normal response
\* with correct = false.
C6_UnresolvableIsIncorrect ==
  (/\ last.op = "check"
   /\ has(QUESTIONS, last.qid)
   /\ LET q == QUESTIONS[last.qid]
          u == last.userAns
      IN IF q.type = "mcq"
         THEN \/ u.t \notin { "number", "string" }
              \/ /\ u.t = "string"
                 /\ ~AllDigits(trim(u.s))
                 /\ ~IsLetterAD(trim(u.s))
                 /\ findIndex(q.options, trim(u.s)) < 0
         ELSE u.t \notin { "number", "string" } \/ Number(u).nan) =>
    (last.status = 200 /\ last.correct = FALSE)

\* C7: a generation request fails atomically.  A request that completes
\* without success answers with an error and no questions and leaves the cache
\* and the history of stored lists as they were; a request whose provider call
\* was rejected or answered with a non-success status completes without
\* success; and the cache is written only by a request that completes with
\* success, after its whole list was normalized.
C7_FailsAtomically ==
  [][/\ \A r \in 1..MaxGens :
          (Completes(r) /\ last'.status # 200) =>
            /\ last'.op = "gen"
            /\ last'.error # ""
            /\ last'.questions = << >>
            /\ QUESTIONS' = QUESTIONS
            /\ hist' = hist
     /\ \A r \in 1..MaxGens :
          (Completes(r) /\ (gen[r].pc # "text" \/ ~gen[r].ok)) =>
            last'.status \in { 500, 502 }
     /\ (QUESTIONS' # QUESTIONS) =>
          /\ last'.op = "gen"
          /\ last'.status = 200
          /\ Len(hist') = Len(hist) + 1
          /\ Len(last'.questions) = Len(hist'[Len(hist')])
          /\ \A k \in 1..Len(hist'[Len(hist')]) :
               has(QUESTIONS', hist'[Len(hist')][k].id)]_vars

\* a generation request failed inside normalization while the cache held the
\* questions of an earlier one
C7_Witness ==
  /\ last.op = "gen"
  /\ last.status = 500
  /\ last.error = "TypeError"
  /\ Len(hist) >= 1
  /\ DOMAIN QUESTIONS # { }

\* C8: the cache is intact in every interleaving of generation and check-answer
\* requests.  Every question of every generation response stored so far is
\* retrievable and is the record of the most recent response that returned its
\* id, the cache holds nothing else, and a step that stores no response (a
\* check-answer, a request suspending or failing) leaves the cache as it was.
C8_StoreIntact ==
  /\ [](/\ DOMAIN QUESTIONS = Returned
        /\ \A id \in Returned :
             QUESTIONS[id] = RecordIn(hist[LatestBatch(id)], id))
  /\ [][hist' = hist => QUESTIONS' = QUESTIONS]_vars

\* a check-answer was answered from a response of two questions that a later
\* request stored while an earlier request was still waiting for the provider
C8_Witness ==
  /\ gen[1].pc = "text"
  /\ gen[2].pc = "done"
  /\ Len(hist) = 1
  /\ Len(hist[1]) = 2
  /\ last.op = "check"
  /\ last.status = 200

\* C9, as stated: a check-answer for a question whose time-to-live has elapsed
\* since it was stored or last looked up gets QuestionNotFound.
C9_Expires ==
  (last.op = "check" /\ last.aged) =>
    (last.status = 404 /\ last.error = "question_not_found")

\* C9, amended: a stored question does not expire.  A check-answer for a stored
\* question gets the normal response with the stored answer however long after
\* its generation or its last lookup, and QuestionNotFound is the response only
\* for an id that is not in the cache.
C9_NeverExpires ==
  /\ (last.op = "check" /\ last.aged) =>
       /\ last.status = 200
       /\ has(QUESTIONS, last.qid)
       /\ last.correctAnswer = QUESTIONS[last.qid].answer
  /\ (last.op = "check" /\ last.status = 404) =>
       (~last.aged /\ ~has(QUESTIONS, last.qid) /\ last.qid \notin Returned)

\* a check-answer was answered for a question whose time-to-live had elapsed
C9_Witness ==
  /\ last.op = "check"
  /\ last.aged
  /\ last.status = 200
  /\ last.qid \in Returned

\* C10: for a text that holds exactly one well-formed JSON object (every
\* well-formed object in it lies within that one), whatever surrounds it,
\* extractJson returns the parsed value of that object.
C10_ExtractsTheObject ==
  extracted.called =>
    LET objs == { p \in (1..Len(text)) \X (1..Len(text)) :
                    /\ p[1] < p[2]
                    /\ text[p[1]] = Tok.lbrace
                    /\ JSONparse(SubSeq(text, p[1], p[2])).ok }
        tops == { p \in objs :
                    \A o \in objs : (o[1] <= p[1] /\ p[2] <= o[2]) => o = p }
    IN Cardinality(tops) = 1 =>
         \A p \in tops :
           /\ extracted.ok
           /\ extracted.v = JSONparse(SubSeq(text, p[1], p[2])).v

\* C11: a brace inside a string literal does not count.  For a text whose first
\* '{', with no quote and no brace before it, opens a well-formed JSON object,
\* extractJson returns the parsed value of that object, also when its string
\* values hold unbalanced braces.
C11_StringBracesIgnored ==
  extracted.called =>
    \A i, j \in 1..Len(text) :
      (/\ i < j
       /\ text[i] = Tok.lbrace
       /\ \A k \in 1..(i - 1) : text[k] \notin { Tok.lbrace, Tok.rbrace, Tok.quote }
       /\ JSONparse(SubSeq(text, i, j)).ok) =>
        /\ extracted.ok
        /\ extracted.v = JSONparse(SubSeq(text, i, j)).v

\* C12: a num question is stored with the numeric value of its raw answer, not
\* a letter, and check-answer reports correct for it exactly when the user
\* answer, a number or a string of digits, equals that value.
C12_NumericAnswer ==
  /\ \A id \in DOMAIN QUESTIONS :
       QUESTIONS[id].type = "num" => QUESTIONS[id].answer.t = "number"
  /\ (/\ last.op = "check"
      /\ last.status = 200
      /\ QUESTIONS[last.qid].type = "num"
      /\ \/ last.userAns.t = "number"
         \/ last.userAns.t = "string" /\ AllDigits(trim(last.userAns.s))) =>
       last.correct = (Number(last.userAns).n = QUESTIONS[last.qid].answer.n)

\* C13, as stated: a generation request whose content holds no parseable JSON
\* object fails, and no successful response has an empty question list.
C13_EmptyIsInvalid ==
  (last.op = "gen" /\ last.read) =>
    /\ (/\ ~JSONparse(last.content).ok
        /\ \A i, j \in 1..Len(last.content) :
             ~(/\ last.content[i] = Tok.lbrace
               /\ last.content[j] = Tok.rbrace
               /\ JSONparse(SubSeq(last.content, i, j)).ok)) => last.status # 200
    /\ last.status = 200 => Len(last.questions) > 0

\* C13, amended: a generation request whose content neither parses as JSON nor
\* holds a span from a '{' to a '}' that parses fails with the error 'JSON not
\* found in content' and no questions; a request whose content parses to a
\* value with no questions list, or with an empty one, succeeds with an empty
\* question list.
C13_EmptyListSucceeds ==
  (last.op = "gen" /\ last.read) =>
    /\ (/\ ~JSONparse(last.content).ok
        /\ \A i, j \in 1..Len(last.content) :
             ~(/\ last.content[i] = Tok.lbrace
               /\ last.content[j] = Tok.rbrace
               /\ JSONparse(SubSeq(last.content, i, j)).ok)) =>
         /\ last.status = 500
         /\ last.error = "Error: JSON not found in content"
         /\ last.questions = << >>
    /\ (/\ JSONparse(last.content).ok
        /\ \/ \A k \in 1..Len(last.content) : last.content[k] # Tok.lbrack
           \/ last.content = WrapText(<< >>)) =>
         /\ last.status = 200
         /\ last.questions = << >>
         /\ Len(hist) > 0
         /\ hist[Len(hist)] = << >>

\* a generation request answered with success and an empty question list, for
\* the content {}
C13_Witness ==
  /\ last.op = "gen"
  /\ last.read
  /\ last.content = << Tok.lbrace, Tok.rbrace >>
  /\ last.status = 200
  /\ last.questions = << >>

\* C14: a candidate that fails removes only itself.  When the questions list of
\* the content holds a valid candidate (candidate 1 or 2), the request succeeds
\* and every valid candidate of the list is returned and stored, whatever the
\* other elements of the list are.
C14_OnlyTheCandidateDropped ==
  (last.op = "gen" /\ last.read) =>
    \A l \in ElemLists :
      (/\ last.content = WrapText(l)
       /\ \E k \in 1..Len(l) : l[k] \in { 1, 2 }) =>
        /\ last.status = 200
        /\ \A k \in 1..Len(l) :
             l[k] \in { 1, 2 } =>
               /\ \E n \in 1..Len(last.questions) :
                    last.questions[n].id = Candidates[l[k]].id.s
               /\ has(QUESTIONS, Candidates[l[k]].id.s)

\* C15, as stated: a check-answer gets QuestionNotFound and no verdict when its
\* question was never generated, and also when the batch it names did not
\* return its question id.
C15_NotFoundPerBatch ==
  (/\ last.op = "check"
   /\ \/ last.qid \notin Returned
      \/ last.batchId \in 1..Len(hist) /\ last.qid \notin ReturnedBy(last.batchId)) =>
    /\ last.status = 404
    /\ last.error = "question_not_found"
    /\ last.correct = FALSE
    /\ last.correctAnswer = Undef

\* C15, amended: a check-answer whose question id is not in the cache gets the
\* 404 response question_not_found and no verdict, the same response for every
\* such id and whatever batch it names, and it leaves the cache as it was; the
\* batch it names is not read, so that an id that any generation stored is
\* found.
C15_NotFoundUniform ==
  /\ [](last.op = "check" =>
          IF has(QUESTIONS, last.qid)
          THEN last.status = 200
          ELSE last = [NoLast EXCEPT !.op = "check", !.qid = last.qid,
                                     !.batchId = last.batchId,
                                     !.userAns = last.userAns,
                                     !.status = 404,
                                     !.error = "question_not_found"])
  /\ [][(last'.op = "check" /\ last'.status = 404 /\ gen' = gen) =>
          QUESTIONS' = QUESTIONS]_vars

\* a check-answer got QuestionNotFound for an id that the batch it names did
\* not return, while the cache held other questions
C15_Witness ==
  /\ last.op = "check"
  /\ last.status = 404
  /\ last.batchId = 1
  /\ Len(hist) >= 1
  /\ DOMAIN QUESTIONS # { }
  /\ last.qid \notin Returned

\* the braces of text from s to k, every one counted: opened minus closed
Opened(s, k) ==
  Cardinality({ n \in s..k : text[n] = Tok.lbrace })
    - Cardinality({ n \in s..k : text[n] = Tok.rbrace })

\* the '}' at e closes the '{' at s
Balanced(s, e) ==
  /\ s < e
  /\ text[s] = Tok.lbrace
  /\ text[e] = Tok.rbrace
  /\ Opened(s, e) = 0
  /\ \A k \in s..(e - 1) : Opened(s, k) > 0

\* the brace-balanced spans of text that lie within no other one
TopSpans ==
  LET all == { p \in (1..Len(text)) \X (1..Len(text)) : Balanced(p[1], p[2]) }
  IN { p \in all : \A o \in all : (o[1] <= p[1] /\ p[2] <= o[2]) => o = p }

\* C16: extractJson returns the parsed value of the first top-level
\* brace-balanced span of the text, in the order of the closing braces, that
\* parses as JSON, and throws only when no such span parses.
C16_FirstParsingSpan ==
  extracted.called =>
    LET good == { p \in TopSpans : JSONparse(SubSeq(text, p[1], p[2])).ok }
    IN IF good = {}
       THEN ~extracted.ok
       ELSE /\ extracted.ok
            /\ \A p \in good :
                 (\A o \in good : p[2] <= o[2]) =>
                   extracted.v = JSONparse(SubSeq(text, p[1], p[2])).v

\* C17: the cache is keyed by the question id alone and the last write wins.  A
\* successful generation leaves, for each id of its response, the last record
\* of the response with that id, and every other id of the cache retrievable
\* with the record it had; and the record a check-answer uses for an id is the
\* last one with that id of the most recent response that holds it.
C17_LastWriteWins ==
  /\ [][Len(hist') = Len(hist) + 1 =>
          /\ DOMAIN QUESTIONS' = DOMAIN QUESTIONS \cup ReturnedBy(Len(hist))'
          /\ \A id \in DOMAIN QUESTIONS' :
               QUESTIONS'[id] = IF id \in ReturnedBy(Len(hist))'
                                THEN RecordIn(hist'[Len(hist')], id)
                                ELSE QUESTIONS[id]]_vars
  /\ []((last.op = "check" /\ last.qid \in Returned) =>
          /\ last.status = 200
          /\ last.correctAnswer =
               RecordIn(hist[LatestBatch(last.qid)], last.qid).answer
          /\ last.correct =
               IsCorrect(RecordIn(hist[LatestBatch(last.qid)], last.qid),
                         last.userAns))

\* a check-answer was answered for an id that the first response returned once
\* and the second twice, with two records, while the other id of the first
\* response, which the second did not reuse, is still in the cache
C17_Witness ==
  /\ last.op = "check"
  /\ last.status = 200
  /\ Len(hist) = 2
  /\ Len(hist[2]) = 2
  /\ hist[2][1].id = last.qid
  /\ hist[2][2].id = last.qid
  /\ hist[2][1].answer # hist[2][2].answer
  /\ last.qid \in ReturnedBy(1)
  /\ \E id \in ReturnedBy(1) \ ReturnedBy(2) : has(QUESTIONS, id)


====
